---- MODULE Spec2Model ----
(***************************************************************************)
(* BackupSeeker core (src/BackupSeeker/core.py): run_backup and            *)
(* run_restore acting on a filesystem, PathUtils, the ConfigManager and    *)
(* its gsm_config.json, the PluginManager                                  *)
(* (src/BackupSeeker/plugin_manager.py) with the detection of              *)
(* src/BackupSeeker/plugins/base.py, and the plugin browser and archive    *)
(* table of the two UIs (src/BackupSeeker/ui.py, ui_fluent.py).            *)
(*                                                                         *)
(* A path is a sequence of components.  The disk is a record               *)
(*   files : function from the paths of regular files to their content     *)
(*   dirs  : set of the paths of directories                               *)
(* A file's content is a record: plain data (bytes) or a zip archive       *)
(* (entries: function from entry name to entry).                           *)
(***************************************************************************)
EXTENDS Integers, Sequences, FiniteSets, TLC

VARIABLES disk, clock, pc, call, nops, store, plugins, ui, registry

vars == <<disk, clock, pc, call, nops, store, plugins, ui, registry>>

---------------------------------------------------------------------------
(* Bounds of the model *)

\* seconds the wall clock can advance (timestamps have one-second resolution)
MaxClock == 1

\* number of events in one behaviour: run_backup and run_restore calls, and
\* changes the game or the user makes to the save folder
MaxOps == 3

\* number of ConfigManager calls (and restarts) in one behaviour
MaxStoreOps == 2

\* number of changes to the plugin files in one behaviour
MaxEdits == 2

---------------------------------------------------------------------------
(* Paths *)

IsPrefix(d, p) == Len(d) <= Len(p) /\ SubSeq(p, 1, Len(d)) = d

\* p lies strictly below directory d
Under(d, p) == IsPrefix(d, p) /\ Len(p) > Len(d)

\* Path.relative_to
RelativeTo(p, d) == SubSeq(p, Len(d) + 1, Len(p))

\* d and all its ancestors (what mkdir(parents=True) may create)
Ancestors(d) == {SubSeq(d, 1, k) : k \in 1..Len(d)}

\* os.path.normpath on a component sequence: drops "." and "", resolves ".."
RECURSIVE Normpath(_)
Normpath(p) ==
    IF p = <<>> THEN <<>>
    ELSE LET init == Normpath(SubSeq(p, 1, Len(p) - 1))
             c == p[Len(p)]
         IN IF c \in {"", "."} THEN init
            ELSE IF c = ".." THEN (IF init = <<>> THEN <<>>
                                   ELSE SubSeq(init, 1, Len(init) - 1))
            ELSE Append(init, c)

---------------------------------------------------------------------------
(* File contents *)

NoEntries == <<>>

Data(n) == [kind |-> "data", bytes |-> n, entries |-> NoEntries, deflated |-> FALSE]

Zip(e, c) == [kind |-> "zip", bytes |-> 0, entries |-> e, deflated |-> c]

FileEntry(body) == [isdir |-> FALSE, body |-> body]

DirEntry == [isdir |-> TRUE, body |-> Data(0)]

---------------------------------------------------------------------------
(* Filesystem primitives *)

\* Path.exists
Exists(d, p) == p \in DOMAIN d.files \/ p \in d.dirs

\* Path.iterdir: the direct children of directory p
Iterdir(d, p) ==
    {q \in (DOMAIN d.files) \cup d.dirs : Len(q) = Len(p) + 1 /\ IsPrefix(p, q)}

\* the regular files os.walk finds below p
Walk(d, p) == {q \in DOMAIN d.files : Under(p, q)}

\* Path.mkdir(parents=True, exist_ok=True)
Mkdirs(d, p) == [d EXCEPT !.dirs = @ \cup Ancestors(p)]

\* shutil.rmtree
Rmtree(d, p) ==
    [files |-> [q \in {r \in DOMAIN d.files : ~IsPrefix(p, r)} |-> d.files[q]],
     dirs |-> {q \in d.dirs : ~IsPrefix(p, q)}]

\* create or truncate the file p with the given content
WriteFile(d, p, content) ==
    [d EXCEPT !.files = [q \in (DOMAIN d.files) \cup {p} |->
                            IF q = p THEN content ELSE d.files[q]]]

---------------------------------------------------------------------------
(* PathUtils and ConfigManager *)

\* the environment: $HOME is /home, $T is /t
Env == ("$HOME" :> <<"home">>) @@ ("$T" :> <<"t">>)

\* the components that hold an environment placeholder, set or unset
Vars == {"$HOME", "$T", "$UNSET"}

\* PathUtils.expand under the environment env: every placeholder of a set
\* variable is substituted, one of an unset variable stays
RECURSIVE ExpandIn(_, _)
ExpandIn(env, path_str) ==
    IF path_str = <<>> THEN <<>>
    ELSE (IF Head(path_str) \in DOMAIN env THEN env[Head(path_str)]
          ELSE <<Head(path_str)>>) \o ExpandIn(env, Tail(path_str))

\* PathUtils.expand under the environment of the program
Expand(path_str) == ExpandIn(Env, path_str)

Cwd == <<"cwd">>

\* ConfigManager.backup_root in "cwd" mode
BackupRoot == Cwd \o <<"backups">>

GameBackupDir(root, game_name) == root \o <<game_name>>

SafetyBackupDir(root, game_name) == root \o <<game_name, "Safety">>

\* datetime.now().strftime("%Y-%m-%d_%H-%M-%S"): one value per second
Timestamp(now) == ToString(now)

---------------------------------------------------------------------------
(* run_backup *)

BackupName(profile, now) == profile.name \o "_" \o Timestamp(now) \o ".zip"

\* (variant) every entry named by its file name alone
BackupArchive_Flat(d, files_to_zip, source_path, compress) ==
    Zip([n \in {<<q[Len(q)]>> : q \in files_to_zip} |->
            FileEntry(d.files[CHOOSE q \in files_to_zip : <<q[Len(q)]>> = n])],
        compress)

\* the archive ZipFile.write builds: one entry per file, named relative to
\* the source
BackupArchive(d, files_to_zip, source_path, compress) ==
    Zip([n \in {RelativeTo(q, source_path) : q \in files_to_zip} |->
            FileEntry(d.files[source_path \o n])], compress)

\* (variant) the backup folder is made before the source is looked for
RunBackup_DirFirst(d, profile, root, now) ==
    LET source_path == Expand(profile.save_path)
        dest_dir == GameBackupDir(root, profile.name)
        d1 == Mkdirs(d, dest_dir)
        dest_zip == Append(dest_dir, BackupName(profile, now))
        files_to_zip == Walk(d1, source_path)
    IN IF ~Exists(d, source_path)
       THEN [disk |-> d1, outcome |-> "FileNotFoundError", path |-> <<>>]
       ELSE IF files_to_zip = {}
       THEN [disk |-> d1, outcome |-> "RuntimeError", path |-> <<>>]
       ELSE [disk |-> WriteFile(d1, dest_zip,
                        BackupArchive(d1, files_to_zip, source_path,
                                      profile.use_compression)),
             outcome |-> "ok", path |-> dest_zip]

\* run_backup: the disk it leaves, how it ends, the archive it returns
RunBackup(d, profile, root, now) ==
    LET source_path == Expand(profile.save_path)
    IN IF ~Exists(d, source_path)
       THEN [disk |-> d, outcome |-> "FileNotFoundError", path |-> <<>>]
       ELSE LET dest_dir == GameBackupDir(root, profile.name)
                d1 == Mkdirs(d, dest_dir)
                dest_zip == Append(dest_dir, BackupName(profile, now))
                files_to_zip == Walk(d1, source_path)
            IN IF files_to_zip = {}
               THEN [disk |-> d1, outcome |-> "RuntimeError", path |-> <<>>]
               ELSE [disk |-> WriteFile(d1, dest_zip,
                                BackupArchive(d1, files_to_zip, source_path,
                                              profile.use_compression)),
                     outcome |-> "ok", path |-> dest_zip]

---------------------------------------------------------------------------
(* run_restore *)

SafetyName(now) == "SAFETY_" \o Timestamp(now) \o ".zip"

\* (variant) only regular files directly in the target count
SnapshotNeeded_TopFiles(d, target_path) ==
    Exists(d, target_path)
        /\ \E q \in Iterdir(d, target_path) : q \in DOMAIN d.files

\* the condition guarding the safety snapshot
SnapshotNeeded(d, target_path) ==
    Exists(d, target_path) /\ Iterdir(d, target_path) # {}

\* the archive shutil.make_archive(..., "zip", root_dir) builds: an entry for
\* every directory and every file below root_dir, named relative to it
TreeArchive(d, root_dir) ==
    LET subdirs == {q \in d.dirs : Under(root_dir, q)}
        below == Walk(d, root_dir)
    IN Zip([n \in {RelativeTo(q, root_dir) : q \in subdirs \cup below} |->
               IF (root_dir \o n) \in subdirs THEN DirEntry
               ELSE FileEntry(d.files[root_dir \o n])], TRUE)

\* the snapshot step: get_safety_backup_dir, then make_archive
SafetySnapshot(d, profile, root, now, target_path) ==
    LET safety_dir == SafetyBackupDir(root, profile.name)
        d1 == Mkdirs(d, safety_dir)
        safety_zip == Append(safety_dir, SafetyName(now))
    IN [disk |-> WriteFile(d1, safety_zip, TreeArchive(d1, target_path)),
        path |-> safety_zip]

\* the clearing step
ClearStep(d, target_path, clear_first) ==
    IF clear_first /\ Exists(d, target_path)
    THEN Mkdirs(Rmtree(d, target_path), target_path)
    ELSE IF ~Exists(d, target_path) THEN Mkdirs(d, target_path)
    ELSE d

\* ZipFile._extract_member: the entry name loses its empty, "." and ".."
\* components before it is joined to the destination
SanitizeName(n) == SelectSeq(n, LAMBDA c : c \notin {"", ".", ".."})

\* where extractall writes the entry named n
Targetpath(target_path, n) == Normpath(target_path \o SanitizeName(n))

\* ZipFile.extractall: every file entry is written at its output path (over
\* a file already there), with the folders above it; every folder entry is
\* made.  No two entries of an archive of this model share an output path.
ExtractAll(d, archive, target_path) ==
    LET e == archive.entries
        fnames == {n \in DOMAIN e : ~e[n].isdir}
        dnames == {n \in DOMAIN e : e[n].isdir}
        written == {Targetpath(target_path, n) : n \in fnames}
        made == UNION ({Ancestors(Targetpath(target_path, n)) : n \in dnames}
                       \cup {Ancestors(Targetpath(target_path, n)) \
                                {Targetpath(target_path, n)} : n \in fnames})
    IN [files |-> [q \in (DOMAIN d.files) \cup written |->
                      IF q \in written
                      THEN e[CHOOSE n \in fnames :
                               Targetpath(target_path, n) = q].body
                      ELSE d.files[q]],
        dirs |-> d.dirs \cup made]

\* opening the selected archive and extracting it
ExtractStep(d, backup_file, target_path) ==
    IF backup_file \notin DOMAIN d.files
    THEN [disk |-> d, outcome |-> "FileNotFoundError"]
    ELSE IF d.files[backup_file].kind # "zip"
    THEN [disk |-> d, outcome |-> "BadZipFile"]
    ELSE [disk |-> ExtractAll(d, d.files[backup_file], target_path),
          outcome |-> "ok"]

---------------------------------------------------------------------------
(* PathUtils.contract and GameProfile.to_dict / from_dict *)

\* len(value) of an environment value: a separator and the name, per component
RECURSIVE PathChars(_)
PathChars(p) == IF p = <<>> THEN 0 ELSE 1 + Len(Head(p)) + PathChars(Tail(p))

\* PathUtils.contract under the environment env: the longest value (longer
\* than 3 characters and existing on disk) that is the path or a folder above
\* it is replaced by the placeholder of its variable
ContractIn(env, d, abs_path) ==
    IF abs_path = <<>> THEN <<>>
    ELSE LET p == Normpath(abs_path)
             env_vars == {v \in DOMAIN env :
                            PathChars(env[v]) > 3 /\ Exists(d, env[v])}
             hits == {v \in env_vars : IsPrefix(Normpath(env[v]), p)}
         IN IF hits = {} THEN p
            ELSE LET var_name == CHOOSE v \in hits :
                        \A w \in hits :
                            PathChars(Normpath(env[w]))
                                <= PathChars(Normpath(env[v]))
                 IN <<var_name>> \o RelativeTo(p, Normpath(env[var_name]))

\* PathUtils.contract under the environment of the program
Contract(d, abs_path) == ContractIn(Env, d, abs_path)

\* dict.get on the fields of a JSON object or of a plugin's draft
Get(data, key, default) == IF key \in DOMAIN data THEN data[key] ELSE default

\* index of the first component holding a placeholder, 0 when there is none
FirstVar(raw_path) ==
    IF \E i \in 1..Len(raw_path) : raw_path[i] \in Vars
    THEN CHOOSE i \in 1..Len(raw_path) :
            raw_path[i] \in Vars /\ \A j \in 1..(i - 1) : raw_path[j] \notin Vars
    ELSE 0

\* the save_path from_dict keeps: what precedes the first placeholder is cut,
\* and a path without placeholder is contracted
LoadedSavePath(d, raw_path) ==
    LET idx == FirstVar(raw_path)
        cut == IF idx > 0 THEN SubSeq(raw_path, idx, Len(raw_path))
               ELSE raw_path
    IN IF cut # <<>> /\ Head(cut) \notin Vars THEN Contract(d, cut) ELSE cut

\* (variant) the icon is not written
ToDict_NoIcon(profile) ==
    [k \in (DOMAIN profile) \ {"file_patterns", "icon"} |-> profile[k]]

\* GameProfile.to_dict: every field but file_patterns
ToDict(profile) == [k \in (DOMAIN profile) \ {"file_patterns"} |-> profile[k]]

\* GameProfile.from_dict on the fields of a JSON object
FromDict(d, data) ==
    [id |-> Get(data, "id", ""),
     name |-> Get(data, "name", ""),
     save_path |-> LoadedSavePath(d, Get(data, "save_path", <<>>)),
     file_patterns |-> <<"*">>,
     use_compression |-> Get(data, "use_compression", TRUE),
     clear_folder_on_restore |-> Get(data, "clear_folder_on_restore", TRUE),
     plugin_id |-> Get(data, "plugin_id", ""),
     icon |-> Get(data, "icon", "")]

---------------------------------------------------------------------------
(* JSON values and the text of a file *)

JObject(f) == [t |-> "object", v |-> f]

JArray(s) == [t |-> "array", v |-> s]

JNumber(n) == [t |-> "number", v |-> n]

\* a text file holding the serialisation of value: all of it, the beginning
\* of it ("some") or nothing yet ("none")
JsonText(value, part) ==
    [kind |-> "text", bytes |-> 0, entries |-> NoEntries, deflated |-> FALSE,
     value |-> value, part |-> part]

\* json.load succeeds: the beginning of a serialisation is no JSON text, and
\* neither is a file of other bytes
Decodable(content) == content.kind = "text" /\ content.part = "all"

---------------------------------------------------------------------------
(* ConfigManager *)

AppDir == <<"app">>

ConfigPath == AppDir \o <<"gsm_config.json">>

\* the file name without its last suffix
Stem(file_name) == IF file_name = "gsm_config.json" THEN "gsm_config" ELSE file_name

\* Path.with_suffix
WithSuffix(p, suffix) == SubSeq(p, 1, Len(p) - 1) \o <<Stem(p[Len(p)]) \o suffix>>

\* (variant) the configuration is written in place
TmpPath_InPlace(config_path) == config_path

TmpPath(config_path) == WithSuffix(config_path, ".tmp")

CorruptedPath(config_path) == WithSuffix(config_path, ".json.corrupted")

\* os.replace / shutil.move of a file on one filesystem
Move(d, src, dst) ==
    [d EXCEPT !.files = [q \in ((DOMAIN d.files) \ {src}) \cup {dst} |->
                            IF q = dst THEN d.files[src] ELSE d.files[q]]]

\* the ConfigManager as __init__ sets it before it loads the file (theme
\* stands for the settings the window keeps: theme, window_geometry,
\* table_widths)
DefaultStore ==
    [games |-> <<>>, theme |-> "system", backup_location_mode |-> "cwd",
     backup_fixed_path |-> <<>>, backup_root |-> BackupRoot]

\* self.games[profile.id] = profile on an insertion-ordered dict, kept as the
\* sequence of its values
DictSet(games, profile) ==
    IF \E i \in 1..Len(games) : games[i].id = profile.id
    THEN [i \in 1..Len(games) |->
             IF games[i].id = profile.id THEN profile ELSE games[i]]
    ELSE Append(games, profile)

\* update_backup_root
UpdateBackupRoot(s) ==
    IF s.backup_location_mode = "fixed" /\ s.backup_fixed_path # <<>>
    THEN [s EXCEPT !.backup_root = Expand(s.backup_fixed_path)]
    ELSE [s EXCEPT !.backup_root = BackupRoot]

\* the in-memory part of set_backup_mode_cwd
SetCwd(s) ==
    UpdateBackupRoot([s EXCEPT !.backup_location_mode = "cwd",
                               !.backup_fixed_path = <<>>])

\* the in-memory part of set_backup_mode_fixed
SetFixed(s, fixed_path) ==
    UpdateBackupRoot([s EXCEPT !.backup_location_mode = "fixed",
                               !.backup_fixed_path = fixed_path])

\* datetime.now().strftime('%Y%m%d%H%M%S'): one value per second
IdStamp(now) == ToString(now)

\* the profile add_game_from_plugin builds from a plugin's draft
DraftProfile(plugin_data, now) ==
    [id |-> "plugin_" \o plugin_data.id \o "_" \o IdStamp(now),
     name |-> plugin_data.name,
     save_path |-> plugin_data.save_path,
     file_patterns |-> <<"*">>,
     use_compression |-> Get(plugin_data, "use_compression", TRUE),
     clear_folder_on_restore |->
         Get(plugin_data, "clear_folder_on_restore", TRUE),
     plugin_id |-> Get(plugin_data, "plugin_id", Get(plugin_data, "id", "")),
     icon |-> Get(plugin_data, "icon", "")]

\* the loop of load_config over the "games" list: it stops at the first
\* entry from_dict raises on (one that is no object)
RECURSIVE LoadGames(_, _, _)
LoadGames(d, entries, games) ==
    IF entries = <<>> THEN [games |-> games, raised |-> FALSE]
    ELSE IF Head(entries).t # "object" THEN [games |-> games, raised |-> TRUE]
    ELSE LoadGames(d, Tail(entries),
                   DictSet(games, FromDict(d, Head(entries).v)))

\* load_config: the disk and the store it leaves, and the branch it took
\*   "absent"  no file, nothing done
\*   "loaded"  the try block ran to its end
\*   "moved"   json.JSONDecodeError: the file is renamed, games is emptied
\*   "logged"  another exception, raised after self.games.clear(): logged
LoadConfig(d, s, config_path) ==
    IF ~Exists(d, config_path)
    THEN [disk |-> d, store |-> s, branch |-> "absent"]
    ELSE IF ~Decodable(d.files[config_path])
    THEN [disk |-> Move(d, config_path, CorruptedPath(config_path)),
          store |-> [s EXCEPT !.games = <<>>], branch |-> "moved"]
    ELSE LET data == d.files[config_path].value
         IN IF data.t # "object"
            THEN [disk |-> d, store |-> [s EXCEPT !.games = <<>>],
                  branch |-> "logged"]
            ELSE LET list == Get(data.v, "games", JArray(<<>>))
                     r == IF list.t = "array"
                          THEN LoadGames(d, list.v, <<>>)
                          ELSE [games |-> <<>>, raised |-> TRUE]
                 IN IF r.raised
                    THEN [disk |-> d, store |-> [s EXCEPT !.games = r.games],
                          branch |-> "logged"]
                    ELSE [disk |-> d,
                          store |->
                            [s EXCEPT
                               !.games = r.games,
                               !.theme = Get(data.v, "theme", "system"),
                               !.backup_location_mode =
                                   Get(data.v, "backup_location_mode",
                                       s.backup_location_mode),
                               !.backup_fixed_path =
                                   Get(data.v, "backup_fixed_path",
                                       s.backup_fixed_path)],
                          branch |-> "loaded"]

\* the document save_config serialises
SaveData(s, now) ==
    JObject([games |-> JArray([i \in 1..Len(s.games) |->
                                  JObject(ToDict(s.games[i]))]),
             theme |-> s.theme,
             backup_location_mode |-> s.backup_location_mode,
             backup_fixed_path |-> s.backup_fixed_path,
             last_updated |-> Timestamp(now)])

\* (variant) an exception of the write leaves save_config
SaveConfigEnds_Raising(exc) == exc

\* how save_config ends when the write raised exc ("none": it did not): the
\* except clause logs the exception and the call returns
SaveConfigEnds(exc) == "ok"

---------------------------------------------------------------------------
(* The world the calls run in *)

SavePath == <<"$HOME", "save">>

SaveDir == Expand(SavePath)

\* the files a game keeps in its save folder, relative to it
SaveFiles == {<<"a.sav">>, <<"d", "b.txt">>}

\* the bodies a save file can have
Bodies == {Data(1), Data(2)}

Profiles ==
    [id : {"g1"}, name : {"G"}, save_path : {SavePath},
     file_patterns : {<<"*">>, <<"*.sav">>},
     use_compression : BOOLEAN, clear_folder_on_restore : {TRUE},
     plugin_id : {""}, icon : {""}]

\* run_restore reads the profile's name and save_path only
RestoreProfiles ==
    {p \in Profiles : p.use_compression /\ p.file_patterns = <<"*">>}

DefaultProfile ==
    [id |-> "g1", name |-> "G", save_path |-> SavePath,
     file_patterns |-> <<"*">>, use_compression |-> TRUE,
     clear_folder_on_restore |-> TRUE, plugin_id |-> "", icon |-> ""]

Downloads == <<"dl">>

\* an archive from elsewhere with an entry that points out of the destination
ForeignZip == Downloads \o <<"foreign.zip">>

ForeignArchive ==
    Zip((<<"..", "a.sav">> :> FileEntry(Data(2)))
        @@ (<<"d", "b.txt">> :> FileEntry(Data(2))), TRUE)

\* a file that is no zip archive
BrokenZip == Downloads \o <<"broken.zip">>

\* a path where nothing is
MissingZip == Downloads \o <<"missing.zip">>

BaseDisk ==
    [files |-> (ForeignZip :> ForeignArchive) @@ (BrokenZip :> Data(0)),
     dirs |-> {<<"home">>, <<"t">>, Cwd, BackupRoot, Downloads, AppDir}]

\* the save folder holding the files f (a function on a subset of SaveFiles)
WithSaves(d, f) ==
    [files |-> [q \in (DOMAIN d.files) \cup {SaveDir \o n : n \in DOMAIN f} |->
                   IF q \in DOMAIN d.files THEN d.files[q]
                   ELSE f[RelativeTo(q, SaveDir)]],
     dirs |-> d.dirs \cup {SaveDir}
                \cup UNION {Ancestors(SaveDir \o n) \ {SaveDir \o n} :
                              n \in DOMAIN f}]

InitialDisks ==
    {BaseDisk}
    \cup {WithSaves(BaseDisk, f) :
            f \in UNION {[S -> Bodies] : S \in SUBSET SaveFiles}}
    \cup {Mkdirs(WithSaves(BaseDisk, f), SaveDir \o <<"d">>) :
            f \in UNION {[S -> Bodies] : S \in SUBSET {<<"a.sav">>}}}

NoCall ==
    [op |-> "none", profile |-> DefaultProfile, backup_file |-> <<>>,
     clear_first |-> FALSE, snap |-> "none", pre |-> BaseDisk,
     outcome |-> "none", path |-> <<>>, now |-> 0]

\* no plugin file, and a PluginManager that has loaded nothing
NoPlugins ==
    [files |-> <<>>, jsonc |-> <<>>, imported |-> <<>>,
     available_plugins |-> <<>>]

\* a main window that lists nothing yet, its sort state as _ensure_sort_state
\* sets it
NoUi == [rows |-> <<>>, type_sort_mode |-> "none", date_sort_mode |-> "desc"]

\* no registry: winreg is None (the platform is not Windows)
NoRegistry == [supported |-> FALSE, values |-> <<>>]

Init ==
    /\ disk \in InitialDisks
    /\ clock = 0
    /\ pc = "idle"
    /\ call = NoCall
    /\ nops = 0
    /\ store = DefaultStore
    /\ plugins = NoPlugins
    /\ ui = NoUi
    /\ registry = NoRegistry

\* the archives a caller can select for a restore
Selectable(d) ==
    {q \in DOMAIN d.files : IsPrefix(BackupRoot, q) \/ IsPrefix(Downloads, q)}
    \cup {MissingZip}

---------------------------------------------------------------------------
(* Actions *)

\* a second passes (each call reads the clock once, so a second passing
\* inside a call is a second passing before or after it); call, the record
\* of the latest call, is dropped once the world moves on
Tick ==
    /\ pc = "idle"
    /\ clock < MaxClock
    /\ clock' = clock + 1
    /\ call' = NoCall
    /\ UNCHANGED <<disk, pc, nops, store, plugins, ui, registry>>

\* the game writes a save file
GameWrites(n, body) ==
    /\ pc = "idle"
    /\ nops < MaxOps
    /\ LET q == SaveDir \o n
       IN disk' = WriteFile(Mkdirs(disk, SubSeq(q, 1, Len(q) - 1)), q, body)
    /\ nops' = nops + 1
    /\ call' = NoCall
    /\ UNCHANGED <<clock, pc, store, plugins, ui, registry>>

\* the user removes a file or a folder of the save folder, or the folder
UserRemoves(q) ==
    /\ pc = "idle"
    /\ nops < MaxOps
    /\ Exists(disk, q)
    /\ disk' = Rmtree(disk, q)
    /\ nops' = nops + 1
    /\ call' = NoCall
    /\ UNCHANGED <<clock, pc, store, plugins, ui, registry>>

\* run_backup(profile, config), start to end
Backup(profile) ==
    /\ pc = "idle"
    /\ nops < MaxOps
    /\ LET r == RunBackup(disk, profile, store.backup_root, clock)
       IN /\ disk' = r.disk
          /\ call' = [op |-> "backup", profile |-> profile,
                      backup_file |-> <<>>, clear_first |-> FALSE,
                      snap |-> "none", pre |-> disk, outcome |-> r.outcome,
                      path |-> r.path, now |-> clock]
    /\ nops' = nops + 1
    /\ UNCHANGED <<clock, pc, store, plugins, ui, registry>>

\* run_restore(profile, config, backup_file, clear_first) is entered
RestoreBegin(profile, backup_file, clear_first) ==
    /\ pc = "idle"
    /\ nops < MaxOps
    /\ pc' = "snapshot"
    /\ call' = [op |-> "restore", profile |-> profile,
                backup_file |-> backup_file, clear_first |-> clear_first,
                snap |-> "pending", pre |-> disk, outcome |-> "running",
                path |-> <<>>, now |-> clock]
    /\ nops' = nops + 1
    /\ UNCHANGED <<disk, clock, store, plugins, ui, registry>>

\* the safety snapshot, taken or skipped
RestoreSnapshot ==
    /\ pc = "snapshot"
    /\ LET target_path == Expand(call.profile.save_path)
       IN IF SnapshotNeeded(disk, target_path)
          THEN LET s == SafetySnapshot(disk, call.profile, store.backup_root,
                                       clock, target_path)
               IN /\ disk' = s.disk
                  /\ call' = [call EXCEPT !.snap = "done", !.path = s.path,
                                          !.now = clock]
          ELSE /\ disk' = disk
               /\ call' = [call EXCEPT !.snap = "skipped"]
    /\ pc' = "clear"
    /\ UNCHANGED <<clock, nops, store, plugins, ui, registry>>

\* the snapshot step raises and run_restore swallows the error: the clearing
\* and extracting steps follow
RestoreSnapshotFails_Continues(left) ==
    /\ pc = "snapshot"
    /\ left \in {"nothing", "folder", "truncated"}
    /\ SnapshotNeeded(disk, Expand(call.profile.save_path))
    /\ disk' = disk
    /\ call' = [call EXCEPT !.snap = "failed"]
    /\ pc' = "clear"
    /\ UNCHANGED <<clock, nops, store, plugins, ui, registry>>

\* the snapshot step raises (the disk is full, the folder is read-only):
\* nothing, the safety folder, or the folder and a truncated archive is left
\* behind, and run_restore ends with the error
RestoreSnapshotFails(left) ==
    /\ pc = "snapshot"
    /\ LET target_path == Expand(call.profile.save_path)
           s == SafetySnapshot(disk, call.profile, store.backup_root, clock,
                               target_path)
       IN /\ SnapshotNeeded(disk, target_path)
          /\ disk' = CASE left = "nothing" -> disk
                      [] left = "folder" ->
                            Mkdirs(disk, SafetyBackupDir(store.backup_root,
                                                         call.profile.name))
                      [] left = "truncated" ->
                            WriteFile(s.disk, s.path, Data(0))
          /\ call' = [call EXCEPT !.snap = "failed", !.outcome = "OSError"]
    /\ pc' = "idle"
    /\ UNCHANGED <<clock, nops, store, plugins, ui, registry>>

\* the target is cleared or created
RestoreClear ==
    /\ pc = "clear"
    /\ disk' = ClearStep(disk, Expand(call.profile.save_path), call.clear_first)
    /\ pc' = "extract"
    /\ UNCHANGED <<clock, call, nops, store, plugins, ui, registry>>

\* the archive is opened and extracted; run_restore returns or raises
RestoreExtract ==
    /\ pc = "extract"
    /\ LET r == ExtractStep(disk, call.backup_file,
                            Expand(call.profile.save_path))
       IN /\ disk' = r.disk
          /\ call' = [call EXCEPT !.outcome = r.outcome]
    /\ pc' = "idle"
    /\ UNCHANGED <<clock, nops, store, plugins, ui, registry>>

Next ==
    \/ Tick
    \/ \E n \in SaveFiles, body \in Bodies : GameWrites(n, body)
    \/ \E q \in {SaveDir} \cup {SaveDir \o n : n \in SaveFiles} : UserRemoves(q)
    \/ \E profile \in Profiles : Backup(profile)
    \/ \E profile \in RestoreProfiles, backup_file \in Selectable(disk),
          clear_first \in BOOLEAN :
          RestoreBegin(profile, backup_file, clear_first)
    \/ RestoreSnapshot
    \/ RestoreClear
    \/ RestoreExtract

Spec == Init /\ [][Next]_vars

\* the same, on a disk where writing the safety snapshot can fail
NextIO ==
    \/ Next
    \/ \E left \in {"nothing", "folder", "truncated"} : RestoreSnapshotFails(left)

SpecIO == Init /\ [][NextIO]_vars

---------------------------------------------------------------------------
(* The ConfigManager: construction, the operations that save, restart *)

\* the values save_path takes in a plugin's draft
SavePaths ==
    {<<>>, SavePath, <<"home", "save">>, <<"t", "save">>,
     <<"opt", "$HOME", "save">>}

\* the drafts add_game_from_plugin is called with
Drafts ==
    {[id |-> "x", name |-> "G", save_path |-> sp] : sp \in SavePaths}
    \cup {[id |-> "y", name |-> "H", save_path |-> SavePath,
           use_compression |-> FALSE, clear_folder_on_restore |-> FALSE,
           plugin_id |-> "p", icon |-> "i"]}

\* the folders set_backup_mode_fixed is called with
FixedPaths == {<<>>, <<"bk">>, <<"home", "save">>}

\* a store with one profile, as save_config writes it
GoodConfig ==
    SaveData([DefaultStore EXCEPT !.games = <<DefaultProfile>>,
                                  !.theme = "dark"], 0)

\* what gsm_config.json can hold when the application starts
ConfigTexts ==
    {JsonText(GoodConfig, "all"),
     JsonText(JObject([backup_location_mode |-> "fixed",
                       backup_fixed_path |-> <<"bk">>]), "all"),
     JsonText(JObject([backup_location_mode |-> "fixed"]), "all"),
     JsonText(JArray(<<>>), "all"),
     JsonText(JObject([games |-> JArray(<<GoodConfig.v.games.v[1],
                                          JNumber(5)>>)]), "all"),
     JsonText(GoodConfig, "some"),
     Data(1)}

StoreDisk == WithSaves(BaseDisk, <<"a.sav">> :> Data(1))

StoreDisks ==
    {StoreDisk} \cup {WriteFile(StoreDisk, ConfigPath, c) : c \in ConfigTexts}

\* the record of a ConfigManager call in progress or just returned; for
\* __init__ and its load_config, pre_store is the store of the session before
StoreCall(op, arg, d, s, now) ==
    [op |-> op, arg |-> arg, pre |-> d, pre_store |-> s, branch |-> "none",
     exc |-> "none", outcome |-> "running", now |-> now]

\* __init__ has set the defaults and made <cwd>/backups; load_config is next
InitStore ==
    /\ disk \in StoreDisks
    /\ clock = 0
    /\ pc = "load"
    /\ call = StoreCall("__init__", <<>>, disk, DefaultStore, 0)
    /\ nops = 0
    /\ store = DefaultStore
    /\ plugins = NoPlugins
    /\ ui = NoUi
    /\ registry = NoRegistry

\* the application is started again: __init__ up to load_config
Restart ==
    /\ pc = "idle"
    /\ nops < MaxStoreOps
    /\ store' = DefaultStore
    /\ disk' = Mkdirs(disk, BackupRoot)
    /\ pc' = "load"
    /\ call' = StoreCall("__init__", <<>>, disk, store, clock)
    /\ nops' = nops + 1
    /\ UNCHANGED <<clock, plugins, ui, registry>>

\* load_config, called by __init__
ConstructLoad ==
    /\ pc = "load"
    /\ LET r == LoadConfig(disk, store, ConfigPath)
       IN /\ disk' = r.disk
          /\ store' = r.store
          /\ call' = [call EXCEPT !.op = "load_config", !.pre = disk,
                                  !.branch = r.branch, !.outcome = "ok"]
    /\ pc' = "root"
    /\ UNCHANGED <<clock, nops, plugins, ui, registry>>

\* the end of __init__: update_backup_root and the mkdir of the root
ConstructRoot ==
    /\ pc = "root"
    /\ store' = UpdateBackupRoot(store)
    /\ disk' = Mkdirs(disk, UpdateBackupRoot(store).backup_root)
    /\ pc' = "idle"
    /\ call' = [call EXCEPT !.op = "__init__", !.outcome = "ok"]
    /\ UNCHANGED <<clock, nops, plugins, ui, registry>>

\* save_config is called by the window
SaveConfig ==
    /\ pc = "idle"
    /\ nops < MaxStoreOps
    /\ pc' = "save_write"
    /\ call' = StoreCall("save_config", <<>>, disk, store, clock)
    /\ nops' = nops + 1
    /\ UNCHANGED <<disk, clock, store, plugins, ui, registry>>

\* set_backup_mode_cwd up to its save_config
SetBackupModeCwd ==
    /\ pc = "idle"
    /\ nops < MaxStoreOps
    /\ store' = SetCwd(store)
    /\ disk' = Mkdirs(disk, SetCwd(store).backup_root)
    /\ pc' = "save_write"
    /\ call' = StoreCall("set_backup_mode_cwd", <<>>, disk, store, clock)
    /\ nops' = nops + 1
    /\ UNCHANGED <<clock, plugins, ui, registry>>

\* set_backup_mode_fixed(fixed_path) up to its save_config
SetBackupModeFixed(fixed_path) ==
    /\ pc = "idle"
    /\ nops < MaxStoreOps
    /\ store' = SetFixed(store, fixed_path)
    /\ disk' = Mkdirs(disk, SetFixed(store, fixed_path).backup_root)
    /\ pc' = "save_write"
    /\ call' = StoreCall("set_backup_mode_fixed", fixed_path, disk, store,
                         clock)
    /\ nops' = nops + 1
    /\ UNCHANGED <<clock, plugins, ui, registry>>

\* add_game_from_plugin(plugin_data) up to its save_config
AddGameFromPlugin(plugin_data) ==
    /\ pc = "idle"
    /\ nops < MaxStoreOps
    /\ store' = [store EXCEPT
                    !.games = DictSet(@, DraftProfile(plugin_data, clock))]
    /\ pc' = "save_write"
    /\ call' = StoreCall("add_game_from_plugin", plugin_data, disk, store,
                         clock)
    /\ nops' = nops + 1
    /\ UNCHANGED <<disk, clock, plugins, ui, registry>>

\* save_config: the document is written to the temporary file
SaveWrite ==
    /\ pc = "save_write"
    /\ disk' = WriteFile(disk, TmpPath(ConfigPath),
                         JsonText(SaveData(store, clock), "all"))
    /\ pc' = "save_replace"
    /\ UNCHANGED <<clock, call, nops, store, plugins, ui, registry>>

\* save_config: the temporary file replaces the configuration; the call that
\* saved returns
SaveReplace ==
    /\ pc = "save_replace"
    /\ disk' = Move(disk, TmpPath(ConfigPath), ConfigPath)
    /\ pc' = "idle"
    /\ call' = [call EXCEPT !.outcome = SaveConfigEnds("none")]
    /\ UNCHANGED <<clock, nops, store, plugins, ui, registry>>

\* save_config: opening, writing or flushing the temporary file raises; the
\* file is not there ("unopened") or cut short ("some")
SaveWriteFails(part) ==
    /\ pc = "save_write"
    /\ disk' = IF part = "unopened" THEN disk
               ELSE WriteFile(disk, TmpPath(ConfigPath),
                              JsonText(SaveData(store, clock), part))
    /\ pc' = "idle"
    /\ call' = [call EXCEPT !.exc = "OSError",
                            !.outcome = SaveConfigEnds("OSError")]
    /\ UNCHANGED <<clock, nops, store, plugins, ui, registry>>

\* save_config: the replace raises
SaveReplaceFails ==
    /\ pc = "save_replace"
    /\ pc' = "idle"
    /\ call' = [call EXCEPT !.exc = "OSError",
                            !.outcome = SaveConfigEnds("OSError")]
    /\ UNCHANGED <<disk, clock, nops, store, plugins, ui, registry>>

\* the steps of the ConfigManager
NextConfig ==
    \/ Restart
    \/ ConstructLoad
    \/ ConstructRoot
    \/ SaveConfig
    \/ SetBackupModeCwd
    \/ \E fixed_path \in FixedPaths : SetBackupModeFixed(fixed_path)
    \/ \E plugin_data \in Drafts : AddGameFromPlugin(plugin_data)
    \/ SaveWrite
    \/ SaveReplace

\* the ConfigManager, the clock, and run_backup of the profiles of the store
NextStore ==
    \/ NextConfig
    \/ Tick
    \/ \E i \in 1..Len(store.games) : Backup(store.games[i])

SpecStore == InitStore /\ [][NextStore]_vars

\* the ConfigManager on a disk where writing the configuration can fail
NextStoreIO ==
    \/ NextConfig
    \/ \E part \in {"unopened", "some"} : SaveWriteFails(part)
    \/ SaveReplaceFails

SpecStoreIO == InitStore /\ [][NextStoreIO]_vars

---------------------------------------------------------------------------
(* The PluginManager *)

\* The state of the plugins is a record
\*   files             the plugin modules in plugins/, by module name: what
\*                     importing the file does now (raises, or defines
\*                     get_plugins returning a list of descriptors)
\*   jsonc             the content of plugins/games.jsonc, <<>> when absent
\*   imported          the modules this process has imported (sys.modules)
\*   available_plugins the mapping from game_id to descriptor

\* a descriptor object; readable: reading its game_id returns (a descriptor
\* that is no GamePlugin, or whose game_id raises, is not readable)
CodePlugin(id) == [game_id |-> id, origin |-> "code", readable |-> TRUE]

MalformedPlugin == [game_id |-> "", origin |-> "code", readable |-> FALSE]

\* plugin_from_json: game_id reads entry["id"], the other properties read
\* the entry (data) when they are asked for
PluginFromJson(entry) ==
    LET has_id == entry.t = "object" /\ "id" \in DOMAIN entry.v
    IN [game_id |-> IF has_id THEN entry.v.id ELSE "",
        origin |-> "json", readable |-> has_id,
        data |-> IF has_id THEN entry.v ELSE [id |-> ""]]

\* self.available_plugins[plugin.game_id] = plugin
Register(available, plugin) ==
    [k \in (DOMAIN available) \cup {plugin.game_id} |->
        IF k = plugin.game_id THEN plugin ELSE available[k]]

\* the loop over the list get_plugins() returned: the exception of a
\* descriptor whose game_id cannot be read leaves the loop
RECURSIVE LoadModule(_, _)
LoadModule(available, list) ==
    IF list = <<>> \/ ~Head(list).readable THEN available
    ELSE LoadModule(Register(available, Head(list)), Tail(list))

\* pkgutil.iter_modules: the modules of plugins/ in the order of their names
ModuleOrder == <<"m1", "m2">>

\* _load_code_plugins from the i-th module on: a module imported before is
\* taken from sys.modules, another is imported from its file, and one whose
\* import raises is logged and left out
RECURSIVE LoadCodePlugins(_, _)
LoadCodePlugins(p, i) ==
    IF i > Len(ModuleOrder) THEN p
    ELSE LET name == ModuleOrder[i]
         IN IF name \notin DOMAIN p.files THEN LoadCodePlugins(p, i + 1)
            ELSE IF name \in DOMAIN p.imported
            THEN LoadCodePlugins(
                     [p EXCEPT !.available_plugins =
                                  LoadModule(@, p.imported[name].plugins)],
                     i + 1)
            ELSE IF p.files[name].raises THEN LoadCodePlugins(p, i + 1)
            ELSE LoadCodePlugins(
                     [p EXCEPT !.imported = (name :> p.files[name]) @@ @,
                               !.available_plugins =
                                  LoadModule(@, p.files[name].plugins)],
                     i + 1)

\* the loop over the entries of games.jsonc: an entry that raises is logged
\* and the loop goes on
RECURSIVE LoadEntries(_, _)
LoadEntries(available, entries) ==
    IF entries = <<>> THEN available
    ELSE LET plugin == PluginFromJson(Head(entries))
         IN LoadEntries(IF plugin.readable THEN Register(available, plugin)
                        ELSE available, Tail(entries))

\* _load_json_plugins (the text of the file is taken with its comment lines
\* stripped)
LoadJsonPlugins(p) ==
    IF p.jsonc = <<>> \/ ~Decodable(p.jsonc[1]) THEN p
    ELSE IF p.jsonc[1].value.t # "array" THEN p
    ELSE [p EXCEPT !.available_plugins = LoadEntries(@, p.jsonc[1].value.v)]

\* load_plugins
LoadPlugins(p) ==
    LoadJsonPlugins(LoadCodePlugins([p EXCEPT !.available_plugins = <<>>], 1))

\* what a plugin module file can be
ModuleSources ==
    {[raises |-> TRUE, plugins |-> <<>>],
     [raises |-> FALSE, plugins |-> <<CodePlugin("a")>>],
     [raises |-> FALSE, plugins |-> <<CodePlugin("b")>>],
     [raises |-> FALSE,
      plugins |-> <<CodePlugin("a"), MalformedPlugin, CodePlugin("c")>>]}

\* what games.jsonc can hold
JsoncTexts ==
    {Data(1),
     JsonText(JObject(<<>>), "all"),
     JsonText(JArray(<<JObject([id |-> "a", name |-> "A"])>>), "all"),
     JsonText(JArray(<<JObject([name |-> "A"]), JNumber(5),
                       JObject([id |-> "d", name |-> "D"])>>), "all")}

PluginFiles ==
    UNION {[S -> ModuleSources] :
             S \in SUBSET {ModuleOrder[i] : i \in 1..Len(ModuleOrder)}}

\* the record of a load_plugins call
PluginCall(p) ==
    [op |-> "load_plugins", pre |-> p, outcome |-> "ok"]

\* PluginManager.__init__ in a new process has set the empty mapping; its
\* load_plugins call is next
InitPlugins ==
    /\ \E files \in PluginFiles, jsonc \in {<<>>} \cup {<<c>> : c \in JsoncTexts} :
          plugins = [NoPlugins EXCEPT !.files = files, !.jsonc = jsonc]
    /\ disk = BaseDisk
    /\ clock = 0
    /\ pc = "idle"
    /\ call = NoCall
    /\ nops = 0
    /\ store = DefaultStore
    /\ ui = NoUi
    /\ registry = NoRegistry

\* load_plugins is called, by __init__ or to reload
Reload ==
    /\ pc = "idle"
    /\ plugins' = LoadPlugins(plugins)
    /\ call' = PluginCall(plugins)
    /\ UNCHANGED <<disk, clock, pc, nops, store, ui, registry>>

\* a plugin module is installed, changed or removed
EditModule(name, files) ==
    /\ pc = "idle"
    /\ nops < MaxEdits
    /\ files # plugins.files
    /\ \A other \in (DOMAIN files) \cup (DOMAIN plugins.files) :
          other # name =>
              /\ other \in DOMAIN files
              /\ other \in DOMAIN plugins.files
              /\ files[other] = plugins.files[other]
    /\ plugins' = [plugins EXCEPT !.files = files]
    /\ call' = NoCall
    /\ nops' = nops + 1
    /\ UNCHANGED <<disk, clock, pc, store, ui, registry>>

\* games.jsonc is written or removed
EditJsonc(jsonc) ==
    /\ pc = "idle"
    /\ nops < MaxEdits
    /\ jsonc # plugins.jsonc
    /\ plugins' = [plugins EXCEPT !.jsonc = jsonc]
    /\ call' = NoCall
    /\ nops' = nops + 1
    /\ UNCHANGED <<disk, clock, pc, store, ui, registry>>

NextPlugins ==
    \/ Reload
    \/ \E i \in 1..Len(ModuleOrder), files \in PluginFiles :
          EditModule(ModuleOrder[i], files)
    \/ \E jsonc \in {<<>>} \cup {<<c>> : c \in JsoncTexts} : EditJsonc(jsonc)

SpecPlugins == InitPlugins /\ [][NextPlugins]_vars

---------------------------------------------------------------------------
(* Detection (plugins/base.py, PluginManager.detect_games) *)

\* a descriptor written in code: data holds what its properties return
DescribedPlugin(id, data) ==
    [game_id |-> id, origin |-> "code", readable |-> TRUE, data |-> data]

\* how a call ends: returning value, or raising the exception outcome
Returns(value) == [outcome |-> "ok", value |-> value]

Raises(exc, value) == [outcome |-> exc, value |-> value]

\* plugin.save_paths and plugin.registry_keys, as JSON values
SavePathsOf(plugin) == Get(plugin.data, "save_paths", JArray(<<>>))

RegistryKeysOf(plugin) == Get(plugin.data, "registry_keys", JArray(<<>>))

\* PathUtils.expand(path).exists(); Path("") is the current directory
PathExists(d, path) == Expand(path) = <<>> \/ Exists(d, Expand(path))

\* _check_registry: False without winreg; a key that cannot be opened or
\* read is logged and skipped
CheckRegistry(d, reg, plugin) ==
    LET keys == RegistryKeysOf(plugin)
    IN IF ~reg.supported THEN Returns(FALSE)
       ELSE IF keys.t # "array" THEN Raises("TypeError", FALSE)
       ELSE Returns(\E i \in 1..Len(keys.v) :
                       /\ keys.v[i] \in DOMAIN reg.values
                       /\ reg.values[keys.v[i]] # <<>>
                       /\ Exists(d, reg.values[keys.v[i]]))

\* GamePlugin.is_detected
IsDetected(d, reg, plugin) ==
    LET save_paths == SavePathsOf(plugin)
    IN IF save_paths.t # "array" THEN Raises("TypeError", FALSE)
       ELSE IF \E i \in 1..Len(save_paths.v) : PathExists(d, save_paths.v[i])
       THEN Returns(TRUE)
       ELSE CheckRegistry(d, reg, plugin)

\* GamePlugin.get_detected_path on a list of paths: the index of the first
\* entry that exists, 0 for None
GetDetectedPath(d, paths) ==
    IF \E i \in 1..Len(paths) : PathExists(d, paths[i])
    THEN CHOOSE i \in 1..Len(paths) :
            PathExists(d, paths[i])
            /\ \A j \in 1..(i - 1) : ~PathExists(d, paths[j])
    ELSE 0

\* GamePlugin.to_profile: the dict literal reads game_name, then
\* get_detected_path() or save_paths[0] (an empty detected path is falsy)
ToProfile(d, plugin) ==
    LET save_paths == SavePathsOf(plugin)
        found == GetDetectedPath(d, save_paths.v)
    IN IF "name" \notin DOMAIN plugin.data THEN Raises("KeyError", <<>>)
       ELSE IF save_paths.t # "array" THEN Raises("TypeError", <<>>)
       ELSE IF (found = 0 \/ save_paths.v[found] = <<>>) /\ save_paths.v = <<>>
       THEN Raises("IndexError", <<>>)
       ELSE Returns(
              [id |-> "plugin_" \o plugin.game_id,
               name |-> plugin.data.name,
               save_path |-> IF found > 0 /\ save_paths.v[found] # <<>>
                             THEN save_paths.v[found]
                             ELSE save_paths.v[1],
               file_patterns |-> Get(plugin.data, "file_patterns", <<"*">>),
               use_compression |-> TRUE,
               clear_folder_on_restore |-> TRUE,
               plugin_id |-> plugin.game_id,
               icon |-> Get(plugin.data, "icon", "")])

\* the descriptors whose turn in the loop of detect_games raises
DetectRaisers(d, reg, available) ==
    {k \in DOMAIN available :
        \/ IsDetected(d, reg, available[k]).outcome # "ok"
        \/ /\ IsDetected(d, reg, available[k]).value
           /\ ToProfile(d, available[k]).outcome # "ok"}

\* PluginManager.detect_games: the drafts of the detected descriptors, by
\* game_id; an exception of is_detected or to_profile leaves the loop and
\* nothing is returned
DetectGames(d, reg, available) ==
    IF DetectRaisers(d, reg, available) # {} THEN Raises("raised", <<>>)
    ELSE Returns([k \in {j \in DOMAIN available :
                            IsDetected(d, reg, available[j]).value} |->
                     ToProfile(d, available[k]).value])

\* a folder no game has written
NoSuchPath == <<"$HOME", "none">>

\* a registry key and a value name, as registry_keys lists them
RegistryKey(key_path) == <<key_path, "InstallPath">>

\* entries of games.jsonc: well-formed ones with one and two candidate
\* paths, one whose save_paths is no list, one without a name, and two that
\* name a registry key, without and with a candidate path
DetectEntries ==
    {JObject([id |-> "a", name |-> "A", save_paths |-> JArray(<<SavePath>>)]),
     JObject([id |-> "n", name |-> "N",
              save_paths |-> JArray(<<NoSuchPath, SavePath>>)]),
     JObject([id |-> "x", name |-> "X", save_paths |-> JNumber(5)]),
     JObject([id |-> "y", save_paths |-> JArray(<<SavePath>>)]),
     JObject([id |-> "r", name |-> "R",
              registry_keys |-> JArray(<<RegistryKey("K0"),
                                         RegistryKey("K")>>)]),
     JObject([id |-> "q", name |-> "Q",
              save_paths |-> JArray(<<NoSuchPath>>),
              registry_keys |-> JArray(<<RegistryKey("K")>>)])}

\* a plugin module with one descriptor written in code
DetectModule ==
    [raises |-> FALSE,
     plugins |-> <<DescribedPlugin("c", [name |-> "C",
                                        save_paths |-> JArray(<<SavePath>>),
                                        icon |-> "i"])>>]

\* no winreg; a registry where K holds the path of an existing folder; one
\* where it holds the path of a folder that is gone
Registries ==
    {NoRegistry,
     [supported |-> TRUE, values |-> (RegistryKey("K") :> <<"home">>)],
     [supported |-> TRUE, values |-> (RegistryKey("K") :> <<"gone">>)]}

\* the record of a call on the plugins
DetectCall(op, arg, r) ==
    [op |-> op, arg |-> arg, pre |-> disk, outcome |-> r.outcome,
     value |-> r.value]

\* a PluginManager that has loaded one module and a games.jsonc of one or
\* two entries
InitDetect ==
    /\ disk \in {BaseDisk, WithSaves(BaseDisk, (<<"a.sav">> :> Data(1)))}
    /\ clock = 0
    /\ pc = "idle"
    /\ call = NoCall
    /\ nops = 0
    /\ store = DefaultStore
    /\ \E e1 \in DetectEntries, e2 \in DetectEntries, with_code \in BOOLEAN :
          plugins = LoadPlugins(
              [NoPlugins EXCEPT
                 !.files = IF with_code THEN ("m1" :> DetectModule) ELSE <<>>,
                 !.jsonc = <<JsonText(JArray(IF e1 = e2 THEN <<e1>>
                                             ELSE <<e1, e2>>), "all")>>])
    /\ ui = NoUi
    /\ registry \in Registries

\* plugin.is_detected() of a loaded descriptor
IsDetectedCall(pid) ==
    /\ pc = "idle"
    /\ pid \in DOMAIN plugins.available_plugins
    /\ call' = DetectCall("is_detected", pid,
                          IsDetected(disk, registry,
                                     plugins.available_plugins[pid]))
    /\ UNCHANGED <<disk, clock, pc, nops, store, plugins, ui, registry>>

\* detect_games()
DetectGamesCall ==
    /\ pc = "idle"
    /\ call' = DetectCall("detect_games", "",
                          DetectGames(disk, registry,
                                      plugins.available_plugins))
    /\ UNCHANGED <<disk, clock, pc, nops, store, plugins, ui, registry>>

NextDetect ==
    \/ \E pid \in {"a", "n", "x", "y", "r", "q", "c"} : IsDetectedCall(pid)
    \/ DetectGamesCall
    \/ \E body \in Bodies : GameWrites(<<"a.sav">>, body)
    \/ UserRemoves(SaveDir)

SpecDetect == InitDetect /\ [][NextDetect]_vars

---------------------------------------------------------------------------
(* Import from the plugin browser (ui.py _on_add_selected, ui_fluent.py    *)
(* _add_selected)                                                           *)

\* (variant) no profile counts as imported
ImportedIds_None(games) == {}

\* the plugin_ids of the profiles of the store, the empty one left out
ImportedIds(games) == {games[i].plugin_id : i \in 1..Len(games)} \ {""}

\* save_config from start to end, nothing failing
SaveConfigDone(d, s, now) ==
    Move(WriteFile(d, TmpPath(ConfigPath), JsonText(SaveData(s, now), "all")),
         TmpPath(ConfigPath), ConfigPath)

\* the loop over the selected rows: a row whose descriptor is gone or whose
\* game id is in existing (the set taken before the loop) is skipped, the
\* draft of another is added; to_profile raising leaves the loop
RECURSIVE ImportRows(_, _, _, _, _, _)
ImportRows(s, d, available, existing, selection, now) ==
    IF selection = <<>> THEN [store |-> s, outcome |-> "ok"]
    ELSE LET pid == Head(selection)
         IN IF pid \notin DOMAIN available \/ pid \in existing
            THEN ImportRows(s, d, available, existing, Tail(selection), now)
            ELSE LET r == ToProfile(d, available[pid])
                 IN IF r.outcome # "ok"
                    THEN [store |-> s, outcome |-> r.outcome]
                    ELSE ImportRows(
                           [s EXCEPT !.games =
                                        DictSet(@, DraftProfile(r.value, now))],
                           d, available, existing, Tail(selection), now)

\* _on_add_selected of ui.py (profile_map is built from every loaded
\* descriptor before the loop, so one to_profile raising ends the handler
\* with nothing added) and _add_selected of ui_fluent.py (fluent)
AddSelectedRows(s, d, available, selection, now, fluent) ==
    IF ~fluent /\ \E k \in DOMAIN available :
                     ToProfile(d, available[k]).outcome # "ok"
    THEN [store |-> s, outcome |-> "raised"]
    ELSE ImportRows(s, d, available, ImportedIds(s.games), selection, now)

\* del self.config.games[profile.id]
DictDel(games, i) ==
    [j \in 1..(Len(games) - 1) |-> IF j < i THEN games[j] ELSE games[j + 1]]

\* what games.jsonc holds while the browser is used
ImportEntries ==
    {<<JObject([id |-> "a", name |-> "A",
                save_paths |-> JArray(<<SavePath>>)])>>,
     <<JObject([id |-> "a", name |-> "A",
                save_paths |-> JArray(<<SavePath>>)]),
       JObject([id |-> "y", save_paths |-> JArray(<<SavePath>>)])>>,
     <<JObject([id |-> "c", name |-> "C2",
                save_paths |-> JArray(<<NoSuchPath>>)])>>}

\* the rows a user can have selected in the browser
Selections ==
    {<<k>> : k \in {"a", "c", "y"}}
    \cup {<<"a", "c">>, <<"c", "a">>, <<"a", "y">>, <<"y", "a">>}

\* a new store, and a PluginManager that has loaded one module and a
\* games.jsonc
InitImport ==
    /\ disk = WithSaves(BaseDisk, (<<"a.sav">> :> Data(1)))
    /\ clock = 0
    /\ pc = "idle"
    /\ call = NoCall
    /\ nops = 0
    /\ store = DefaultStore
    /\ \E entries \in ImportEntries :
          plugins = LoadPlugins(
              [NoPlugins EXCEPT
                 !.files = ("m1" :> DetectModule),
                 !.jsonc = <<JsonText(JArray(entries), "all")>>])
    /\ ui = NoUi
    /\ registry = NoRegistry

\* the Add Selected button of either UI, the handler from start to end
AddSelected(selection, fluent) ==
    /\ pc = "idle"
    /\ nops < MaxOps
    /\ LET r == AddSelectedRows(store, disk, plugins.available_plugins,
                                selection, clock, fluent)
       IN /\ store' = r.store
          /\ disk' = IF r.store # store
                     THEN SaveConfigDone(disk, r.store, clock) ELSE disk
          /\ call' = [op |-> "add_selected", arg |-> selection, pre |-> disk,
                      pre_store |-> store, outcome |-> r.outcome]
    /\ nops' = nops + 1
    /\ UNCHANGED <<clock, pc, plugins, ui, registry>>

\* delete_game / _delete_profile: the profile is removed and the store saved
DeleteGame(i) ==
    /\ pc = "idle"
    /\ nops < MaxOps
    /\ i \in 1..Len(store.games)
    /\ store' = [store EXCEPT !.games = DictDel(@, i)]
    /\ disk' = SaveConfigDone(disk, store', clock)
    /\ call' = [op |-> "delete_game", arg |-> <<store.games[i].id>>,
                pre |-> disk, pre_store |-> store, outcome |-> "ok"]
    /\ nops' = nops + 1
    /\ UNCHANGED <<clock, pc, plugins, ui, registry>>

\* the program is started again: a new ConfigManager reads the file
ReloadStore ==
    /\ pc = "idle"
    /\ nops < MaxOps
    /\ LET r == LoadConfig(disk, DefaultStore, ConfigPath)
       IN /\ disk' = r.disk
          /\ store' = UpdateBackupRoot(r.store)
    /\ call' = NoCall
    /\ nops' = nops + 1
    /\ UNCHANGED <<clock, pc, plugins, ui, registry>>

\* games.jsonc is rewritten and the plugins are loaded again
RewriteJsonc(entries) ==
    /\ pc = "idle"
    /\ nops < MaxOps
    /\ plugins' = LoadPlugins([plugins EXCEPT
                                 !.jsonc = <<JsonText(JArray(entries), "all")>>])
    /\ call' = NoCall
    /\ nops' = nops + 1
    /\ UNCHANGED <<disk, clock, pc, store, ui, registry>>

NextImport ==
    \/ \E selection \in Selections, fluent \in BOOLEAN :
          AddSelected(selection, fluent)
    \/ \E i \in 1..2 : DeleteGame(i)
    \/ ReloadStore
    \/ \E entries \in ImportEntries : RewriteJsonc(entries)
    \/ Tick

SpecImport == InitImport /\ [][NextImport]_vars

---------------------------------------------------------------------------
(* PathUtils.contract and PathUtils.expand on their own *)

\* the longest path contract is called with
MaxDepth == 3

\* the components of the paths contract is called with: folder names, a
\* folder whose name reads as a placeholder, and ".."
PathParts == {"home", "app", "x", "$T", ".."}

AbsPaths == UNION {[1..n -> PathParts] : n \in 1..MaxDepth}

\* environments: the one of the program; one more variable whose value lies
\* below another's; two variables of the same value
Environments ==
    {Env,
     Env @@ ("$APP" :> <<"home", "app">>),
     Env @@ ("$APP" :> <<"home", "app">>) @@ ("$APP2" :> <<"home", "app">>)}

\* /home/app is there or not
PathDisks == {BaseDisk, Mkdirs(BaseDisk, <<"home", "app">>)}

\* contract is about to be called with abs_path under the environment env
InitPaths ==
    /\ disk \in PathDisks
    /\ clock = 0
    /\ pc = "idle"
    /\ \E env \in Environments, abs_path \in AbsPaths :
          call = [op |-> "none", env |-> env, abs_path |-> abs_path,
                  contracted |-> <<>>, expanded |-> <<>>]
    /\ nops = 0
    /\ store = DefaultStore
    /\ plugins = NoPlugins
    /\ ui = NoUi
    /\ registry = NoRegistry

\* PathUtils.contract(abs_path), then PathUtils.expand of what it returned
ContractExpand ==
    /\ pc = "idle"
    /\ call.op = "none"
    /\ call' = [call EXCEPT
                  !.op = "contract",
                  !.contracted = ContractIn(call.env, disk, call.abs_path),
                  !.expanded = ExpandIn(call.env,
                                        ContractIn(call.env, disk,
                                                   call.abs_path))]
    /\ UNCHANGED <<disk, clock, pc, nops, store, plugins, ui, registry>>

NextPaths == ContractExpand

SpecPaths == InitPaths /\ [][NextPaths]_vars

---------------------------------------------------------------------------
(* The archive table of the main window (ui.py, ui_fluent.py) *)

\* the modification times a listed archive can have
MaxStamp == 2

\* a row of the table: what refresh_backups keeps of one *.zip file
Row(type_rank, timestamp, filename) ==
    [type_rank |-> type_rank, timestamp |-> timestamp, filename |-> filename]

\* (variant) the date before the type
SortKey_DateFirst(row, type_sort_mode, date_sort_mode) ==
    <<IF date_sort_mode = "desc" THEN -row.timestamp ELSE row.timestamp,
      CASE type_sort_mode = "asc" -> row.type_rank
        [] type_sort_mode = "desc" -> -row.type_rank
        [] OTHER -> 0>>

\* sort_key of _sort_backup_rows: (type_key, date_key)
SortKey(row, type_sort_mode, date_sort_mode) ==
    <<CASE type_sort_mode = "asc" -> row.type_rank
        [] type_sort_mode = "desc" -> -row.type_rank
        [] OTHER -> 0,
      IF date_sort_mode = "desc" THEN -row.timestamp ELSE row.timestamp>>

\* the order of Python's tuples of two numbers
TupleLeq(a, b) == a[1] < b[1] \/ (a[1] = b[1] /\ a[2] <= b[2])

\* list.sort(key=sort_key): ascending by key and stable, rows of equal key
\* keep the order they had
RECURSIVE ListSort(_, _, _)
ListSort(rows, type_sort_mode, date_sort_mode) ==
    IF rows = <<>> THEN <<>>
    ELSE LET last == rows[Len(rows)]
             head == ListSort(SubSeq(rows, 1, Len(rows) - 1),
                              type_sort_mode, date_sort_mode)
             k == Cardinality(
                    {i \in 1..Len(head) :
                        TupleLeq(SortKey(head[i], type_sort_mode,
                                         date_sort_mode),
                                 SortKey(last, type_sort_mode,
                                         date_sort_mode))})
         IN SubSeq(head, 1, k) \o <<last>> \o SubSeq(head, k + 1, Len(head))

\* refresh_backups: the regular archives as glob yields them, then the
\* safety archives; ui.py sorts them by st_mtime, latest first, before
\* _sort_backup_rows sorts them by the sort state, ui_fluent.py does not
RefreshRows(u, regular, safety, presorted) ==
    LET all_files == regular \o safety
        listed == IF presorted THEN ListSort(all_files, "none", "desc")
                  ELSE all_files
    IN [u EXCEPT !.rows = ListSort(listed, u.type_sort_mode,
                                   u.date_sort_mode)]

\* _on_table_header_clicked: the Type column cycles none -> asc -> desc, the
\* Date column toggles, any other column does nothing; the rows are sorted
HeaderClickedRows(u, col) ==
    LET type_sort_mode ==
            IF col # 0 THEN u.type_sort_mode
            ELSE CASE u.type_sort_mode = "none" -> "asc"
                   [] u.type_sort_mode = "asc" -> "desc"
                   [] OTHER -> "none"
        date_sort_mode ==
            IF col # 1 THEN u.date_sort_mode
            ELSE IF u.date_sort_mode = "desc" THEN "asc" ELSE "desc"
    IN IF col \notin {0, 1} THEN u
       ELSE [rows |-> ListSort(u.rows, type_sort_mode, date_sort_mode),
             type_sort_mode |-> type_sort_mode,
             date_sort_mode |-> date_sort_mode]

\* the *.zip files glob can yield from one folder, in any order
GlobResults(type_rank, names) ==
    LET one == {<<Row(type_rank, t, n)>> : t \in 0..MaxStamp, n \in names}
    IN {<<>>} \cup one
       \cup {c \in {a \o b : a \in one, b \in one} :
                c[1].filename # c[2].filename}

InitListing ==
    /\ disk = BaseDisk
    /\ clock = 0
    /\ pc = "idle"
    /\ call = NoCall
    /\ nops = 0
    /\ store = DefaultStore
    /\ plugins = NoPlugins
    /\ ui = NoUi
    /\ registry = NoRegistry

\* refresh_backups lists the archives of the current profile
RefreshBackups(regular, safety, presorted) ==
    /\ pc = "idle"
    /\ ui' = RefreshRows(ui, regular, safety, presorted)
    /\ UNCHANGED <<disk, clock, pc, call, nops, store, plugins, registry>>

\* a header of the table is clicked
HeaderClicked(col) ==
    /\ pc = "idle"
    /\ ui' = HeaderClickedRows(ui, col)
    /\ UNCHANGED <<disk, clock, pc, call, nops, store, plugins, registry>>

NextListing ==
    \/ \E regular \in GlobResults(0, {"G_1.zip", "G_2.zip"}),
          safety \in GlobResults(1, {"SAFETY_1.zip"}),
          presorted \in BOOLEAN :
          RefreshBackups(regular, safety, presorted)
    \/ \E col \in 0..3 : HeaderClicked(col)

SpecListing == InitListing /\ [][NextListing]_vars

---------------------------------------------------------------------------
(* Views of the state the properties are stated on *)

\* the files below dir, by relative path
FilesBelow(d, dir) ==
    [n \in {RelativeTo(q, dir) : q \in Walk(d, dir)} |-> d.files[dir \o n]]

\* all there is to see of the directory dir
TreeState(d, dir) ==
    [exists |-> Exists(d, dir),
     files |-> FilesBelow(d, dir),
     dirs |-> {RelativeTo(q, dir) : q \in {r \in d.dirs : Under(dir, r)}}]

\* the file entries of an archive, by entry name
ArchiveFiles(a) ==
    [n \in {m \in DOMAIN a.entries : ~a.entries[m].isdir} |-> a.entries[n].body]

\* the target of the call in progress or just returned
Target == Expand(call.profile.save_path)

\* run_backup / run_restore has just returned or raised
Returned(op) == pc = "idle" /\ call.op = op

SafetyArchives(d) ==
    {q \in DOMAIN d.files :
        IsPrefix(SafetyBackupDir(BackupRoot, call.profile.name), q)}

RegularArchives(d) ==
    {q \in DOMAIN d.files :
        /\ Len(q) = Len(BackupRoot) + 2
        /\ IsPrefix(GameBackupDir(BackupRoot, call.profile.name), q)}

\* glob matching of a relative path against one pattern, for the patterns and
\* the file names of this model
MatchesPattern(pat, n) ==
    \/ pat = "*"
    \/ pat = "*.sav" /\ n[Len(n)] \in {"a.sav"}

MatchesAny(pats, n) == \E i \in 1..Len(pats) : MatchesPattern(pats[i], n)

EmptyDisk == [files |-> <<>>, dirs |-> {}]

Scratch == <<"scratch">>

---------------------------------------------------------------------------
(* C1 *)

\* the snapshot step is over: the SAFETY archive is on disk and holds the
\* whole target as it was when run_restore was entered, or the step was
\* skipped and the target was absent or empty
SnapshotSettled ==
    \/ /\ call.snap = "done"
       /\ call.path \in SafetyArchives(disk)
       /\ disk.files[call.path] = TreeArchive(call.pre, Target)
    \/ /\ call.snap = "skipped"
       /\ ~(Exists(call.pre, Target) /\ Iterdir(call.pre, Target) # {})

\* C1: every step of run_restore that changes anything in the target
\* directory (clears it, creates it, extracts into it) is taken with the
\* safety snapshot completed or rightly skipped.
C1_SnapshotBeforeDestruction ==
    [][(pc # "idle" /\ TreeState(disk', Target) # TreeState(disk, Target))
          => SnapshotSettled]_vars

\* a restore has cleared a non-empty target after taking its snapshot
C1_Witness ==
    /\ pc = "extract"
    /\ call.snap = "done"
    /\ FilesBelow(call.pre, Target) # <<>>
    /\ FilesBelow(disk, Target) = <<>>

---------------------------------------------------------------------------
(* C2 *)

\* C2: a run_restore into an existing non-empty target leaves exactly one
\* more file in the Safety folder than there was, and one into an absent or
\* empty target leaves the Safety folder as it was.
C2_OneNewSafetyArchive ==
    (Returned("restore") /\ call.snap \in {"done", "skipped"}) =>
        IF Exists(call.pre, Target) /\ Iterdir(call.pre, Target) # {}
        THEN Cardinality(SafetyArchives(disk))
                = Cardinality(SafetyArchives(call.pre)) + 1
        ELSE SafetyArchives(disk) = SafetyArchives(call.pre)

---------------------------------------------------------------------------
(* C3 *)

Unopenable(d, f) == f \notin DOMAIN d.files \/ d.files[f].kind # "zip"

\* C3: when the selected archive is missing or is no archive, run_restore
\* raises and the target's files are those it had when the call was made.
C3_UnopenableLeavesTarget ==
    (Returned("restore") /\ call.snap \in {"done", "skipped"}
        /\ Unopenable(call.pre, call.backup_file)) =>
        /\ call.outcome \in {"FileNotFoundError", "BadZipFile"}
        /\ FilesBelow(disk, Target) = FilesBelow(call.pre, Target)

---------------------------------------------------------------------------
(* C4 *)

\* the entry named n, joined to the destination as it is stored, lands
\* outside the destination
Escapes(target_path, n) == ~Under(target_path, Normpath(target_path \o n))

\* C4: a restore from an archive with an entry that resolves outside the
\* target fails, and no restore changes a file outside the target and the
\* backup folder.
C4_EscapingEntryRejected ==
    Returned("restore") =>
        /\ (/\ ~Unopenable(call.pre, call.backup_file)
            /\ \E n \in DOMAIN call.pre.files[call.backup_file].entries :
                    Escapes(Target, n))
              => call.outcome # "ok"
        /\ \A q \in (DOMAIN disk.files) \cup (DOMAIN call.pre.files) :
              (~IsPrefix(Target, q) /\ ~IsPrefix(BackupRoot, q)) =>
                  /\ q \in DOMAIN disk.files
                  /\ q \in DOMAIN call.pre.files
                  /\ disk.files[q] = call.pre.files[q]

\* the part of C4 the code keeps: nothing is written outside the target
NoWriteOutsideTarget ==
    Returned("restore") =>
        \A q \in (DOMAIN disk.files) \cup (DOMAIN call.pre.files) :
            (~IsPrefix(Target, q) /\ ~IsPrefix(BackupRoot, q)) =>
                /\ q \in DOMAIN disk.files
                /\ q \in DOMAIN call.pre.files
                /\ disk.files[q] = call.pre.files[q]

---------------------------------------------------------------------------
(* C5 *)

\* C5: after a successful run_restore with clear_first, the files of the
\* target are exactly the file entries of the selected archive, path for path
\* and body for body.
C5_ClearedTargetEqualsArchive ==
    (Returned("restore") /\ call.outcome = "ok" /\ call.clear_first) =>
        FilesBelow(disk, Target)
            = ArchiveFiles(call.pre.files[call.backup_file])

---------------------------------------------------------------------------
(* C6 *)

\* C6: after a successful run_restore without clear_first, a file of the
\* target whose path is no entry of the selected archive is as it was, every
\* file entry of the archive is in the target with the archive's body, and
\* the target exists.
C6_MergeKeepsOtherFiles ==
    (Returned("restore") /\ call.outcome = "ok" /\ ~call.clear_first) =>
        LET before == FilesBelow(call.pre, Target)
            after == FilesBelow(disk, Target)
            arch == ArchiveFiles(call.pre.files[call.backup_file])
        IN /\ \A n \in DOMAIN before :
                 n \notin DOMAIN arch =>
                     n \in DOMAIN after /\ after[n] = before[n]
           /\ \A n \in DOMAIN arch :
                 n \in DOMAIN after /\ after[n] = arch[n]
           /\ Target \in disk.dirs

---------------------------------------------------------------------------
(* C7 *)

\* C7: the archive a successful run_backup returns, extracted into an empty
\* directory, yields the files the source had when the backup was made, path
\* for path and body for body (at least one), deflated or stored as the
\* profile says.
C7_BackupRoundTrip ==
    (Returned("backup") /\ call.outcome = "ok") =>
        LET src == FilesBelow(call.pre, Target)
            out == ExtractAll(Mkdirs(EmptyDisk, Scratch),
                              disk.files[call.path], Scratch)
        IN /\ disk.files[call.path].kind = "zip"
           /\ disk.files[call.path].deflated = call.profile.use_compression
           /\ Cardinality(DOMAIN src) >= 1
           /\ FilesBelow(out, Scratch) = src
           /\ DOMAIN out.files = {Scratch \o n : n \in DOMAIN src}

\* a backup without compression of a source with a file in a subfolder
C7_Witness ==
    /\ Returned("backup")
    /\ call.outcome = "ok"
    /\ ~call.profile.use_compression
    /\ Cardinality(DOMAIN FilesBelow(call.pre, Target)) = 2

---------------------------------------------------------------------------
(* C8 *)

\* C8: the entries of the archive run_backup creates are exactly the files of
\* the source that match one of the profile's file_patterns.
C8_OnlyMatchingFilesArchived ==
    (Returned("backup") /\ call.outcome = "ok") =>
        DOMAIN ArchiveFiles(disk.files[call.path])
            = {n \in DOMAIN FilesBelow(call.pre, Target) :
                  MatchesAny(call.profile.file_patterns, n)}

---------------------------------------------------------------------------
(* C9 *)

\* C9: run_backup on a save path that does not exist raises the
\* source-not-found error, returns no archive and leaves the whole disk, the
\* backup root included, as it was.
C9_MissingSourceWritesNothing ==
    (Returned("backup") /\ ~Exists(call.pre, Target)) =>
        /\ call.outcome = "FileNotFoundError"
        /\ call.path = <<>>
        /\ disk = call.pre

\* a backup of a profile whose save folder is not there has been refused
C9_Witness ==
    /\ Returned("backup")
    /\ ~Exists(call.pre, Target)
    /\ call.outcome = "FileNotFoundError"
    /\ GameBackupDir(BackupRoot, call.profile.name) \notin disk.dirs

---------------------------------------------------------------------------
(* C10 *)

\* C10: run_backup on a save path that exists and holds no file matching the
\* profile's patterns raises the empty-source error and leaves the profile's
\* archives as they were.
C10_NoMatchingFileNoArchive ==
    (Returned("backup") /\ Exists(call.pre, Target)
        /\ \A n \in DOMAIN FilesBelow(call.pre, Target) :
              ~MatchesAny(call.profile.file_patterns, n)) =>
        /\ call.outcome = "RuntimeError"
        /\ [q \in RegularArchives(disk) |-> disk.files[q]]
              = [q \in RegularArchives(call.pre) |-> call.pre.files[q]]

---------------------------------------------------------------------------
(* C11 *)

\* C11: whatever the backup root is set to, run_backup, successful or
\* failed, leaves the files and folders under the profile's expanded save
\* path, and their contents, as they were before the call.
C11_BackupLeavesSource ==
    Returned("backup") => TreeState(disk, Target) = TreeState(call.pre, Target)

---------------------------------------------------------------------------
(* Views of the ConfigManager *)

\* the operations that end with save_config
StoreOps ==
    {"save_config", "set_backup_mode_cwd", "set_backup_mode_fixed",
     "add_game_from_plugin"}

\* what gsm_config.json holds: one content, or none when it is absent
ConfigFile(d) ==
    IF ConfigPath \in DOMAIN d.files THEN <<d.files[ConfigPath]>> ELSE <<>>

\* a JSON value of the shape save_config writes: an object whose "games", if
\* present, is a list of objects
ExpectedShape(value) ==
    /\ value.t = "object"
    /\ "games" \in DOMAIN value.v =>
          /\ value.v.games.t = "array"
          /\ \A i \in 1..Len(value.v.games.v) : value.v.games.v[i].t = "object"

\* load_config has just returned inside __init__
Loaded == pc = "root" /\ call.op = "load_config"

\* p with file_patterns at its default
WithDefaultPatterns(p) == [p EXCEPT !.file_patterns = <<"*">>]

---------------------------------------------------------------------------
(* C12 *)

\* C12: from the moment an operation that saves is entered until the next
\* call, whether the write succeeds or fails while the temporary file is
\* written or at the replace, gsm_config.json holds the complete content it
\* had before or the complete new content.
C12_SaveConfigAtomic ==
    (call.op \in StoreOps) =>
        ConfigFile(disk) \in
            {ConfigFile(call.pre),
             <<JsonText(SaveData(store, call.now), "all")>>}

\* a save has failed leaving a temporary file cut short, next to the
\* configuration of before
C12_Witness ==
    /\ pc = "idle"
    /\ call.op \in StoreOps
    /\ call.exc = "OSError"
    /\ TmpPath(ConfigPath) \in DOMAIN disk.files
    /\ disk.files[TmpPath(ConfigPath)].part = "some"
    /\ ConfigFile(disk) # <<>>
    /\ ConfigFile(disk) = ConfigFile(call.pre)

---------------------------------------------------------------------------
(* C13 *)

\* C13: load_config on a file that is no JSON text, or JSON of another shape
\* than an object with a list of profile objects, returns normally, leaves no
\* profile in the store, and leaves the file's content under the .corrupted
\* name and no gsm_config.json.
C13_InvalidFileMovedAside ==
    (/\ Loaded
     /\ ConfigFile(call.pre) # <<>>
     /\ \/ ~Decodable(call.pre.files[ConfigPath])
        \/ ~ExpectedShape(call.pre.files[ConfigPath].value)) =>
        /\ call.outcome = "ok"
        /\ store.games = <<>>
        /\ ~Exists(disk, ConfigPath)
        /\ CorruptedPath(ConfigPath) \in DOMAIN disk.files
        /\ disk.files[CorruptedPath(ConfigPath)] = call.pre.files[ConfigPath]

---------------------------------------------------------------------------
(* C14 *)

\* load_config has read the file save_config wrote from the store of the
\* session before
SavedThenLoaded ==
    /\ Loaded
    /\ \E t \in 0..clock :
          ConfigFile(call.pre)
              = <<JsonText(SaveData(call.pre_store, t), "all")>>

---------------------------------------------------------------------------
(* C15 *)

\* the operation recorded in call has set what it is to set
OperationApplied ==
    CASE call.op = "save_config" -> store = call.pre_store
      [] call.op = "set_backup_mode_cwd" ->
            /\ store.backup_location_mode = "cwd"
            /\ store.backup_fixed_path = <<>>
            /\ store.games = call.pre_store.games
      [] call.op = "set_backup_mode_fixed" ->
            /\ store.backup_location_mode = "fixed"
            /\ store.backup_fixed_path = call.arg
            /\ store.games = call.pre_store.games
      [] call.op = "add_game_from_plugin" ->
            /\ \E i \in 1..Len(store.games) :
                  /\ store.games[i].name = call.arg.name
                  /\ store.games[i].save_path = call.arg.save_path
            /\ store.backup_location_mode
                  = call.pre_store.backup_location_mode
            /\ store.backup_fixed_path = call.pre_store.backup_fixed_path

\* C15: when the write of the configuration fails, save_config,
\* add_game_from_plugin, set_backup_mode_cwd and set_backup_mode_fixed return
\* normally and the store holds what the operation set.
C15_SaveFailureContained ==
    (pc = "idle" /\ call.op \in StoreOps /\ call.exc # "none") =>
        /\ call.outcome = "ok"
        /\ OperationApplied

\* add_game_from_plugin has returned after its write failed, the profile in
\* the store and not in the file
C15_Witness ==
    /\ pc = "idle"
    /\ call.op = "add_game_from_plugin"
    /\ call.exc = "OSError"
    /\ call.outcome = "ok"
    /\ Len(store.games) = 1
    /\ ConfigFile(disk) = <<>>

---------------------------------------------------------------------------
(* C16 *)

\* C16: between calls, after construction from any file and after any
\* set_backup_mode_cwd and set_backup_mode_fixed calls, a store in mode
\* "fixed" has a non-empty fixed path.
C16_FixedModeHasPath ==
    pc = "idle" =>
        (store.backup_location_mode = "fixed" => store.backup_fixed_path # <<>>)

---------------------------------------------------------------------------
(* C17 *)

\* C17: when set_backup_mode_cwd or set_backup_mode_fixed has returned, or
\* load_config has returned having changed the mode or the fixed path, the
\* backup root is the expanded fixed path in mode "fixed" and <cwd>/backups in
\* mode "cwd", and it is a folder on disk.
C17_RootFollowsSettings ==
    (\/ pc = "idle" /\ call.op \in {"set_backup_mode_cwd",
                                    "set_backup_mode_fixed"}
     \/ /\ Loaded
        /\ <<store.backup_location_mode, store.backup_fixed_path>>
              # <<DefaultStore.backup_location_mode,
                   DefaultStore.backup_fixed_path>>) =>
        /\ store.backup_root
              = IF store.backup_location_mode = "fixed"
                THEN Expand(store.backup_fixed_path) ELSE BackupRoot
        /\ store.backup_root \in disk.dirs

---------------------------------------------------------------------------
(* C18 *)

\* C18: every add_game_from_plugin call, whenever it is made, leaves one
\* profile more in the store, every profile that was there as it was, and the
\* new profile in gsm_config.json.
C18_AddStoresFreshProfile ==
    (pc = "idle" /\ call.op = "add_game_from_plugin") =>
        LET new == DraftProfile(call.arg, call.now)
        IN /\ Len(store.games) = Len(call.pre_store.games) + 1
           /\ \A i \in 1..Len(call.pre_store.games) :
                 \E j \in 1..Len(store.games) :
                     store.games[j] = call.pre_store.games[i]
           /\ ConfigFile(disk) # <<>>
           /\ \E j \in 1..Len(disk.files[ConfigPath].value.v.games.v) :
                 disk.files[ConfigPath].value.v.games.v[j]
                     = JObject(ToDict(new))

---------------------------------------------------------------------------
(* Views of the PluginManager *)

\* the game_ids of the descriptors in list whose game_id can be read
ReadableIds(list) ==
    {list[i].game_id : i \in {j \in 1..Len(list) : list[j].readable}}

\* the game_ids the plugin modules in plugins/ provide now
CodeIds(p) ==
    UNION {ReadableIds(p.files[name].plugins) :
             name \in {m \in DOMAIN p.files : ~p.files[m].raises}}

\* the entries of games.jsonc, none when it is absent or holds no JSON list
JsonEntries(p) ==
    IF p.jsonc # <<>> /\ Decodable(p.jsonc[1]) /\ p.jsonc[1].value.t = "array"
    THEN p.jsonc[1].value.v ELSE <<>>

\* the game_ids the entries of games.jsonc provide now
JsonIds(p) ==
    {JsonEntries(p)[i].v.id :
        i \in {j \in 1..Len(JsonEntries(p)) :
                  /\ JsonEntries(p)[j].t = "object"
                  /\ "id" \in DOMAIN JsonEntries(p)[j].v}}

---------------------------------------------------------------------------
(* C19 *)

\* C19: after a load_plugins call, available_plugins holds a descriptor for
\* exactly the game_ids the plugin modules and games.jsonc provide now, the
\* data-defined one for a game_id games.jsonc provides and the code-defined
\* one for any other.
C19_ReloadRebuildsFromSources ==
    Returned("load_plugins") =>
        /\ DOMAIN plugins.available_plugins
              = CodeIds(plugins) \cup JsonIds(plugins)
        /\ \A id \in DOMAIN plugins.available_plugins :
              plugins.available_plugins[id].origin
                  = IF id \in JsonIds(plugins) THEN "json" ELSE "code"

---------------------------------------------------------------------------
(* C20 *)

\* C20: load_plugins returns normally, and after it every descriptor with a
\* readable game_id in a list a module's get_plugins() returned, and every
\* entry with an id in the list of games.jsonc, is in available_plugins,
\* whatever the other descriptors of the same list are.
C20_FailureIsolated ==
    Returned("load_plugins") =>
        /\ call.outcome = "ok"
        /\ \A name \in (DOMAIN plugins.imported) \cap (DOMAIN plugins.files) :
              ReadableIds(plugins.imported[name].plugins)
                  \subseteq DOMAIN plugins.available_plugins
        /\ JsonIds(plugins) \subseteq DOMAIN plugins.available_plugins

---------------------------------------------------------------------------
(* C24 *)

\* C24: when the safety snapshot step of run_restore raises, whatever it has
\* left in the Safety folder, run_restore ends with that error and the target
\* directory is as it was when the call was made: nothing is cleared and
\* nothing is extracted.
C24_FailedSnapshotLeavesTarget ==
    (Returned("restore") /\ call.snap = "failed") =>
        /\ call.outcome = "OSError"
        /\ TreeState(disk, Target) = TreeState(call.pre, Target)

\* a restore with clear_first from an archive that could be extracted has
\* ended at its snapshot step, a truncated SAFETY archive left behind
C24_Witness ==
    /\ Returned("restore")
    /\ call.snap = "failed"
    /\ call.clear_first
    /\ ~Unopenable(disk, call.backup_file)
    /\ FilesBelow(disk, Target) # <<>>
    /\ \E q \in SafetyArchives(disk) : disk.files[q] = Data(0)

---------------------------------------------------------------------------
(* C28 *)

\* C28: after a successful run_restore into a non-empty target, a successful
\* run_restore of the safety archive the first one made, with clear_first,
\* leaves in the target exactly the files, with their contents, that it held
\* before the first restore.  (The first restore is the one that wrote the
\* archive selected now: the archive holds the target of that moment.)
C28_UndoThroughSafetyArchive ==
    (/\ Returned("restore")
     /\ call.outcome = "ok"
     /\ call.clear_first
     /\ call.backup_file \in SafetyArchives(call.pre)
     /\ call.pre.files[call.backup_file].kind = "zip"
     /\ ArchiveFiles(call.pre.files[call.backup_file]) # <<>>) =>
        FilesBelow(disk, Target)
            = ArchiveFiles(call.pre.files[call.backup_file])

---------------------------------------------------------------------------
(* C29 *)

\* the profiles and settings the JSON object value holds, as a store
StoreOfFile(value, root) ==
    [games |-> [i \in 1..Len(Get(value.v, "games", JArray(<<>>)).v) |->
                   Get(value.v, "games", JArray(<<>>)).v[i].v.id],
     theme |-> Get(value.v, "theme", "system"),
     backup_location_mode |-> Get(value.v, "backup_location_mode", "cwd"),
     backup_fixed_path |-> Get(value.v, "backup_fixed_path", <<>>)]

\* C29: when load_config has returned, either the store holds every profile
\* and every setting of the file, or it holds no profile, has the settings of
\* a new store, and the file has been moved aside.
C29_LoadAllOrNothing ==
    (Loaded /\ ConfigFile(call.pre) # <<>>) =>
        \/ /\ Decodable(call.pre.files[ConfigPath])
           /\ ExpectedShape(call.pre.files[ConfigPath].value)
           /\ [games |-> [i \in 1..Len(store.games) |-> store.games[i].id],
               theme |-> store.theme,
               backup_location_mode |-> store.backup_location_mode,
               backup_fixed_path |-> store.backup_fixed_path]
                 = StoreOfFile(call.pre.files[ConfigPath].value, BackupRoot)
        \/ /\ store = DefaultStore
           /\ ~Exists(disk, ConfigPath)
           /\ CorruptedPath(ConfigPath) \in DOMAIN disk.files

---------------------------------------------------------------------------
(* C26 *)

\* the rows of both types are listed, and one is more recent than another
MixedRows ==
    /\ \E i, j \in 1..Len(ui.rows) :
          ui.rows[i].type_rank # ui.rows[j].type_rank
    /\ \E i, j \in 1..Len(ui.rows) :
          ui.rows[i].timestamp # ui.rows[j].timestamp

\* C26, date before type: in the default date order (latest first), of any
\* two listed archives with different modification times the more recent one
\* comes first, whether type sorting is on or off.
C26_RecentFirst ==
    ui.date_sort_mode = "desc" =>
        \A i, j \in 1..Len(ui.rows) :
            (i < j /\ ui.rows[i].timestamp # ui.rows[j].timestamp)
                => ui.rows[i].timestamp > ui.rows[j].timestamp

\* C26, type before date: in the default date order, with type sorting off
\* the more recent of two listed archives comes first; with type sorting on
\* the archives of one type come before those of the other (Regular first
\* when ascending, Safety first when descending) and within one type the
\* more recent comes first.
C26_TypeThenRecentFirst ==
    ui.date_sort_mode = "desc" =>
        \A i, j \in 1..Len(ui.rows) :
            i < j =>
                /\ ui.type_sort_mode = "asc"
                      => ui.rows[i].type_rank <= ui.rows[j].type_rank
                /\ ui.type_sort_mode = "desc"
                      => ui.rows[i].type_rank >= ui.rows[j].type_rank
                /\ (ui.type_sort_mode = "none"
                      \/ ui.rows[i].type_rank = ui.rows[j].type_rank)
                      => ui.rows[i].timestamp >= ui.rows[j].timestamp

\* three archives of both types are listed with type sorting on, the first
\* of them older than the last
C26_Witness ==
    /\ ui.date_sort_mode = "desc"
    /\ ui.type_sort_mode # "none"
    /\ Len(ui.rows) = 3
    /\ MixedRows
    /\ ui.rows[1].timestamp < ui.rows[3].timestamp

---------------------------------------------------------------------------
(* C27 *)

\* the *.zip files refresh_backups lists for a profile name: those of its
\* regular folder and those of its Safety folder
ArchivesOf(d, root, game_name) ==
    {q \in DOMAIN d.files :
        \/ /\ Len(q) = Len(root) + 2
           /\ IsPrefix(GameBackupDir(root, game_name), q)
        \/ /\ Len(q) = Len(root) + 3
           /\ IsPrefix(SafetyBackupDir(root, game_name), q)}

\* C27: when run_backup or run_restore has ended, every regular or safety
\* archive of the profile that was there when the call was made is still
\* there with the content it had, and a run_backup that succeeded has put
\* one file that was not there before into the regular backup folder.
C27_ArchivesNeverLost ==
    (pc = "idle" /\ call.op \in {"backup", "restore"}) =>
        /\ \A q \in ArchivesOf(call.pre, store.backup_root, call.profile.name) :
              /\ q \in DOMAIN disk.files
              /\ disk.files[q] = call.pre.files[q]
        /\ (call.op = "backup" /\ call.outcome = "ok") =>
              /\ call.path \notin DOMAIN call.pre.files
              /\ ArchivesOf(disk, store.backup_root, call.profile.name)
                    = ArchivesOf(call.pre, store.backup_root,
                                 call.profile.name) \cup {call.path}

---------------------------------------------------------------------------
(* C30 *)

\* C30: the archive a run_backup of one profile has written is listed for
\* that profile only: it is under the regular or the safety backup folder
\* of no profile of the store with another id.
C30_ArchivesPerProfile ==
    (Returned("backup") /\ call.outcome = "ok") =>
        \A i \in 1..Len(store.games) :
            store.games[i].id # call.profile.id =>
                call.path \notin ArchivesOf(disk, store.backup_root,
                                            store.games[i].name)

---------------------------------------------------------------------------
(* C23 *)

\* C23: for a path that, normalised, is the value of an environment variable
\* or lies below it, the value having four characters or more and existing
\* on disk, expanding what contract returned gives the normalised path.
C23_ContractExpandRoundTrip ==
    (/\ Returned("contract")
     /\ \E v \in DOMAIN call.env :
           /\ PathChars(call.env[v]) >= 4
           /\ Exists(disk, call.env[v])
           /\ IsPrefix(call.env[v], Normpath(call.abs_path))) =>
        call.expanded = Normpath(call.abs_path)

---------------------------------------------------------------------------
(* C21 *)

\* the candidate save paths of a descriptor
Candidates(plugin) ==
    IF SavePathsOf(plugin).t = "array"
    THEN {SavePathsOf(plugin).v[i] : i \in 1..Len(SavePathsOf(plugin).v)}
    ELSE {}

\* some configured registry key can be looked up and holds the path of an
\* existing folder
RegistryResolves(d, reg, plugin) ==
    /\ reg.supported
    /\ RegistryKeysOf(plugin).t = "array"
    /\ \E i \in 1..Len(RegistryKeysOf(plugin).v) :
          LET key == RegistryKeysOf(plugin).v[i]
          IN /\ key \in DOMAIN reg.values
             /\ Exists(d, reg.values[key])

\* C21: is_detected of a loaded descriptor returns, never raises, and what it
\* returns is true exactly when a candidate save path expands to something
\* that exists or a configured registry key resolves to an existing install
\* path (which it never does where the registry is unsupported or the
\* lookup fails).
C21_IsDetectedTotal ==
    Returned("is_detected") =>
        /\ call.outcome = "ok"
        /\ call.value <=>
              \/ \E c \in Candidates(plugins.available_plugins[call.arg]) :
                    PathExists(disk, c)
              \/ RegistryResolves(disk, registry,
                                  plugins.available_plugins[call.arg])

---------------------------------------------------------------------------
(* C22 *)

\* C22: detect_games returns, with exactly one draft for each loaded
\* descriptor that is_detected holds for and none for the others, and each
\* draft's save_path is the first candidate path that exists, or the first
\* candidate path when none exists.
C22_OneDraftPerDetected ==
    Returned("detect_games") =>
        /\ call.outcome = "ok"
        /\ \A k \in DOMAIN plugins.available_plugins :
              LET plugin == plugins.available_plugins[k]
                  cands == SavePathsOf(plugin).v
                  found == GetDetectedPath(disk, cands)
              IN /\ k \in DOMAIN call.value
                      <=> (\/ \E c \in Candidates(plugin) : PathExists(disk, c)
                           \/ RegistryResolves(disk, registry, plugin))
                 /\ k \in DOMAIN call.value =>
                       /\ call.value[k].plugin_id = k
                       /\ call.value[k].save_path =
                             IF found > 0 THEN cands[found] ELSE cands[1]

---------------------------------------------------------------------------
(* C25 *)

\* the profiles of the games that were imported from the descriptor pid
ImportedFrom(games, pid) ==
    {games[i] : i \in {j \in 1..Len(games) : games[j].plugin_id = pid}}

\* C25: the store never holds two profiles with the same non-empty
\* plugin_id, and an import of a descriptor whose game id is the plugin_id
\* of a profile of the store adds nothing: the profiles of that plugin_id
\* are the ones there were.
C25_NoDuplicateImport ==
    /\ \A i, j \in 1..Len(store.games) :
          (i # j /\ store.games[i].plugin_id # "")
              => store.games[i].plugin_id # store.games[j].plugin_id
    /\ Returned("add_selected") =>
          \A k \in 1..Len(call.arg) :
              call.arg[k] \in ImportedIds(call.pre_store.games) =>
                  ImportedFrom(store.games, call.arg[k])
                      = ImportedFrom(call.pre_store.games, call.arg[k])

\* in a later second than its first import, a descriptor was selected again
\* together with a new one: the store holds one profile of each
C25_Witness ==
    /\ Returned("add_selected")
    /\ clock > 0
    /\ Len(call.arg) = 2
    /\ \E k \in 1..2 :
          /\ call.arg[k] \in ImportedIds(call.pre_store.games)
          /\ \E g \in ImportedFrom(store.games, call.arg[k]) :
                g.id = "plugin_plugin_" \o call.arg[k] \o "_0"
    /\ Len(store.games) = 2
    /\ Len(call.pre_store.games) = 1

====
